---- MODULE Spec2Model ----
(***************************************************************************)
(* Model of dask_azure_storage_blob.py: list_prefixes (recursive, depth    *)
(* bounded prefix expansion with nested dask.compute), read_under_prefix   *)
(* (random sample of the blobs under a prefix, downloaded in full) and     *)
(* list_properties.  Blob names and prefixes are sequences of one          *)
(* character strings, so that rstrip / count / startswith are modelled     *)
(* character by character.                                                 *)
(***************************************************************************)
EXTENDS Integers, Sequences, FiniteSets, TLC

\* ------------------------------------------------------------------ bounds
MaxNameLen == 3
MaxBlobs == 2
MaxPrefixLen == 2
MaxXLen == 1
MaxDepth == 3
MaxCalls == 3
SampleDen == 3

\* ------------------------------------------------------- strings and store
Chars == {"a", "/"}

CharOrd(c) == IF c = "/" THEN 0 ELSE 1

SeqsUpTo(S, n) == UNION {[1..k -> S] : k \in 0..n}

\* a few longer names, which give the tree of prefixes a third level:
\* /aa/  /a/a/  /aa/a/  a/a/  a/aa/  a/a/a
DeepNames ==
    { <<"/", "a", "a", "/">>,
      <<"/", "a", "/", "a", "/">>,
      <<"/", "a", "a", "/", "a", "/">>,
      <<"a", "/", "a", "/">>,
      <<"a", "/", "a", "a", "/">>,
      <<"a", "/", "a", "/", "a">> }

\* the blob names considered: every name of at most MaxNameLen characters,
\* and the longer ones above
Names == (SeqsUpTo(Chars, MaxNameLen) \ {<<>>}) \cup DeepNames

RECURSIVE RStrip(_)
RStrip(s) ==
    IF s = <<>> THEN <<>>
    ELSE IF s[Len(s)] = "/" THEN RStrip(SubSeq(s, 1, Len(s) - 1))
    ELSE s

NormalizeNoStrip(s) == s \o <<"/">>

\* line 65: prefix = prefix.rstrip("/") + "/"
Normalize(s) == RStrip(s) \o <<"/">>

\* line 66: prefix.count("/")
Count(s) == Cardinality({i \in DOMAIN s : s[i] = "/"})

StartsWith(n, p) == Len(p) <= Len(n) /\ SubSeq(n, 1, Len(p)) = p

RECURSIVE Less(_, _)
Less(a, b) ==
    IF a = <<>> THEN b # <<>>
    ELSE IF b = <<>> THEN FALSE
    ELSE IF a[1] # b[1] THEN CharOrd(a[1]) < CharOrd(b[1])
    ELSE Less(Tail(a), Tail(b))

Least(S) == CHOOSE x \in S : \A y \in S \ {x} : Less(x, y)

RECURSIVE SortNames(_)
SortNames(S) ==
    IF S = {} THEN <<>>
    ELSE LET m == Least(S) IN <<m>> \o SortNames(S \ {m})

\* the part of blob name n after the listed prefix p
Rest(n, p) == SubSeq(n, Len(p) + 1, Len(n))

FirstDelim(r) == CHOOSE i \in DOMAIN r : r[i] = "/" /\ \A j \in 1..(i - 1) : r[j] # "/"

Under(st, p) == {n \in st : StartsWith(n, p)}

\* BlobPrefix entries of a one-level listing: the name up to and including
\* the first delimiter after the listed prefix
PrefixEntries(st, p) ==
    {SubSeq(n, 1, Len(p) + FirstDelim(Rest(n, p))) :
        n \in {m \in Under(st, p) : Count(Rest(m, p)) > 0}}

\* BlobProperties entries of a one-level listing: blobs with no delimiter
\* after the listed prefix
BlobEntries(st, p) == {n \in Under(st, p) : Count(Rest(n, p)) = 0}

walk_blobs_flat(st, p) == SortNames(Under(st, p))

\* line 71: [x.name for x in cc.walk_blobs(prefix)]; a page yields its
\* BlobPrefix items and then its BlobProperties items, each in name order
walk_blobs(st, p) == SortNames(PrefixEntries(st, p)) \o SortNames(BlobEntries(st, p))

\* line 94 / 112: cc.list_blobs(x), every blob whose name starts with x
list_blobs(st, x) == SortNames(Under(st, x))

\* line 99: cc.get_blob_client(blob).download_blob().readall()
readall(n) == <<"bytes">> \o n

\* ------------------------------------------------------------------- state
VARIABLES
    store,      \* the container: the set of blob names (never modified)
    op,         \* which top-level function the caller invoked
    argPrefix,  \* its prefix / x argument
    argDepth,   \* list_prefixes: depth
    argSample,  \* read_under_prefix: sample, as argSample / SampleDen
    calls,      \* list_prefixes: call path -> frame of that (delayed) call
    finished,   \* list_prefixes: call paths in the order the calls returned
    rd,         \* frame of the read_under_prefix call
    lp,         \* frame of the list_properties call
    storeOps,   \* requests sent to the store so far
    opens,      \* number of client sessions opened
    closes,     \* number of client sessions closed
    run,        \* how many times the caller has forced the expansion
    first       \* the sequence the first forced expansion returned

vars == <<store, op, argPrefix, argDepth, argSample, calls, finished, rd, lp,
          storeOps, opens, closes, run, first>>

RECURSIVE SetsUpTo(_, _)
SetsUpTo(S, n) ==
    IF n = 0 THEN {{}}
    ELSE LET T == SetsUpTo(S, n - 1) IN T \cup {{a} \cup t : a \in S, t \in T}

\* the prefix argument of list_prefixes, the x / prefix argument of the
\* other two functions
PrefixArgs(o) ==
    IF o = "list_prefixes" THEN SeqsUpTo(Chars, MaxPrefixLen) ELSE SeqsUpTo(Chars, MaxXLen)

\* The content of the container.  list_prefixes sees the container only
\* through walk_blobs under its normalised prefix and under names that extend
\* it, so the blobs considered for it are those under that prefix.  The other
\* two functions only test whether a name starts with x: names one character
\* longer than the longest x give blobs under and outside every x.
Stores(o, p) ==
    IF o = "list_prefixes"
    THEN SetsUpTo({n \in Names : StartsWith(n, Normalize(p))}, MaxBlobs)
    ELSE SetsUpTo(SeqsUpTo(Chars, MaxXLen + 1) \ {<<>>}, MaxBlobs)

Root == <<>>

DelayedOpen(p) == [prefix |-> p, pc |-> "deferred", cc |-> "open",
                   prefixes |-> <<>>, blob_names |-> <<>>]

\* a delayed list_prefixes(prefix, depth, storage_options) object (lines 37-40)
Delayed(p) == [prefix |-> p, pc |-> "deferred", cc |-> "none",
               prefixes |-> <<>>, blob_names |-> <<>>]

IdleRd == [pc |-> "idle", cc |-> "none", listing |-> <<>>, blobs |-> <<>>, items |-> <<>>]

IdleLp == [pc |-> "idle", cc |-> "none", records |-> <<>>]

Ops == {"list_prefixes", "read_under_prefix", "list_properties"}

InitOf(ops) ==
    /\ op \in ops
    /\ argPrefix \in PrefixArgs(op)
    /\ store \in Stores(op, argPrefix)
    /\ argDepth \in IF op = "list_prefixes" THEN (0 - 1)..MaxDepth ELSE {0}
    /\ argSample \in IF op = "read_under_prefix" THEN (0 - 1)..(SampleDen + 1) ELSE {0}
    /\ calls = IF op = "list_prefixes" THEN (Root :> Delayed(argPrefix)) ELSE <<>>
    /\ finished = <<>>
    /\ rd = IF op = "read_under_prefix" THEN [IdleRd EXCEPT !.pc = "deferred"] ELSE IdleRd
    /\ lp = IF op = "list_properties" THEN [IdleLp EXCEPT !.pc = "ready"] ELSE IdleLp
    /\ storeOps = {}
    /\ opens = 0
    /\ closes = 0
    /\ run = 1
    /\ first = <<>>

\* ------------------------------------------------------------ list_prefixes
Children(cs, c) == {c \o <<i>> : i \in 1..Len(cs[c].prefixes)}

RECURSIVE Flatten(_)
Flatten(xs) == IF xs = <<>> THEN <<>> ELSE Head(xs) \o Flatten(Tail(xs))

\* the results of the children of c in the order in which they returned
ByCompletion(cs, c, fin) ==
    LET idx == {i \in DOMAIN fin : fin[i] \in Children(cs, c)}
        RECURSIVE Pick(_)
        Pick(I) == IF I = {} THEN <<>>
                   ELSE LET m == CHOOSE i \in I : \A j \in I : i <= j
                        IN <<cs[fin[m]].blob_names>> \o Pick(I \ {m})
    IN Pick(idx)

computeByCompletion(cs, c, fin) == ByCompletion(cs, c, fin)

\* line 77: xs = dask.compute(*xs), one result per element of xs, in the
\* order of xs
compute(cs, c, fin) == [i \in 1..Len(cs[c].prefixes) |-> cs[c \o <<i>>].blob_names]

\* lines 78-79: for x in xs: blob_names.extend(x)
Extend(xs) == Flatten(xs)

\* the caller forces the delayed object that list_prefixes returned
ForceExpand ==
    /\ op = "list_prefixes"
    /\ calls[Root].pc = "deferred"
    /\ calls' = [calls EXCEPT ![Root].pc = "ready"]
    /\ UNCHANGED <<store, op, argPrefix, argDepth, argSample, finished, rd, lp,
                   storeOps, opens, closes, run, first>>

\* the caller forces the delayed object that read_under_prefix returned
ForceRead ==
    /\ op = "read_under_prefix"
    /\ rd.pc = "deferred"
    /\ rd' = [rd EXCEPT !.pc = "ready"]
    /\ UNCHANGED <<store, op, argPrefix, argDepth, argSample, calls, finished, lp,
                   storeOps, opens, closes, run, first>>

\* lines 65-69: normalise, count, build the client, enter `with cc`
Enter(c) ==
    /\ calls[c].pc = "ready"
    /\ calls' = [calls EXCEPT ![c].prefix = Normalize(@), ![c].pc = "entered",
                              ![c].cc = "open"]
    /\ opens' = opens + 1
    /\ UNCHANGED <<store, op, argPrefix, argDepth, argSample, finished, rd, lp,
                   storeOps, closes, run, first>>

HandleOfRoot(c) == Root

\* lines 67 and 71: cc is a local of the call, built by it at line 67; line 76
\* hands storage_options, not cc, to the calls it creates
HandleOf(c) == c

\* line 71: cc.walk_blobs(prefix), sent through the client of the call
WalkOp(c, p) == [by |-> c, kind |-> "walk", arg |-> p, handle |-> HandleOf(c),
                 scoped |-> calls[HandleOf(c)].cc = "open"]

\* lines 70-74 and 82: d == depth - 1, the names of the listing are returned
WalkReturn(c) ==
    LET p == calls[c].prefix IN
    /\ calls[c].pc = "entered"
    /\ Count(p) = argDepth - 1
    /\ storeOps' = storeOps \cup {WalkOp(c, p)}
    /\ calls' = [calls EXCEPT ![c].prefixes = walk_blobs(store, p),
                              ![c].blob_names = walk_blobs(store, p),
                              ![c].pc = "done", ![c].cc = "closed"]
    /\ closes' = closes + 1
    /\ finished' = Append(finished, c)
    /\ UNCHANGED <<store, op, argPrefix, argDepth, argSample, rd, lp, opens, run, first>>

WalkRecurseAlways(c) ==
    LET p == calls[c].prefix
        names == walk_blobs(store, p)
        new == {c \o <<i>> : i \in 1..Len(names)} IN
    /\ calls[c].pc = "entered"
    /\ Count(p) < argDepth
    /\ Cardinality(DOMAIN calls) + Len(names) <= MaxCalls
    /\ storeOps' = storeOps \cup {WalkOp(c, p)}
    /\ calls' = [k \in DOMAIN calls \cup new |->
                    IF k \in new THEN Delayed(names[k[Len(k)]])
                    ELSE IF k = c THEN [calls[c] EXCEPT !.prefixes = names, !.pc = "built"]
                    ELSE calls[k]]
    /\ UNCHANGED <<store, op, argPrefix, argDepth, argSample, finished, rd, lp,
                   opens, closes, run, first>>

\* lines 70-76: d < depth - 1, one delayed list_prefixes per listed name
WalkRecurse(c) ==
    LET p == calls[c].prefix
        names == walk_blobs(store, p)
        new == {c \o <<i>> : i \in 1..Len(names)} IN
    /\ calls[c].pc = "entered"
    /\ Count(p) < argDepth - 1
    /\ Cardinality(DOMAIN calls) + Len(names) <= MaxCalls
    /\ storeOps' = storeOps \cup {WalkOp(c, p)}
    /\ calls' = [k \in DOMAIN calls \cup new |->
                    IF k \in new THEN Delayed(names[k[Len(k)]])
                    ELSE IF k = c THEN [calls[c] EXCEPT !.prefixes = names, !.pc = "built"]
                    ELSE calls[k]]
    /\ UNCHANGED <<store, op, argPrefix, argDepth, argSample, finished, rd, lp,
                   opens, closes, run, first>>

\* line 71 raises: the listing fails, `with cc` closes the client and the
\* error leaves the call
WalkFail(c) ==
    LET p == calls[c].prefix IN
    /\ calls[c].pc = "entered"
    /\ Count(p) < argDepth
    /\ storeOps' = storeOps \cup {WalkOp(c, p)}
    /\ calls' = [calls EXCEPT ![c].pc = "failed", ![c].cc = "closed"]
    /\ closes' = closes + 1
    /\ UNCHANGED <<store, op, argPrefix, argDepth, argSample, finished, rd, lp, opens, run, first>>

\* lines 80-81: d == depth, return [prefix]
ReturnSelf(c) ==
    /\ calls[c].pc = "entered"
    /\ Count(calls[c].prefix) = argDepth
    /\ calls' = [calls EXCEPT ![c].blob_names = <<calls[c].prefix>>,
                              ![c].pc = "done", ![c].cc = "closed"]
    /\ closes' = closes + 1
    /\ finished' = Append(finished, c)
    /\ UNCHANGED <<store, op, argPrefix, argDepth, argSample, rd, lp, storeOps,
                   opens, run, first>>

ReturnPrefixAnyway(c) ==
    /\ calls[c].pc = "entered"
    /\ Count(calls[c].prefix) > argDepth
    /\ calls' = [calls EXCEPT ![c].blob_names = <<calls[c].prefix>>,
                              ![c].pc = "done", ![c].cc = "closed"]
    /\ closes' = closes + 1
    /\ finished' = Append(finished, c)
    /\ UNCHANGED <<store, op, argPrefix, argDepth, argSample, rd, lp, storeOps,
                   opens, run, first>>

\* lines 70, 80, 82: d > depth, neither branch is taken, blob_names is empty
ReturnEmpty(c) ==
    /\ calls[c].pc = "entered"
    /\ Count(calls[c].prefix) > argDepth
    /\ calls' = [calls EXCEPT ![c].pc = "done", ![c].cc = "closed"]
    /\ closes' = closes + 1
    /\ finished' = Append(finished, c)
    /\ UNCHANGED <<store, op, argPrefix, argDepth, argSample, rd, lp, storeOps,
                   opens, run, first>>

\* line 77: dask.compute(*xs) hands every delayed child to the scheduler
Compute(c) ==
    /\ calls[c].pc = "built"
    /\ calls' = [k \in DOMAIN calls |->
                    IF k \in Children(calls, c) THEN [calls[k] EXCEPT !.pc = "ready"]
                    ELSE IF k = c THEN [calls[c] EXCEPT !.pc = "gathering"]
                    ELSE calls[k]]
    /\ UNCHANGED <<store, op, argPrefix, argDepth, argSample, finished, rd, lp,
                   storeOps, opens, closes, run, first>>

AnyReturned(cs, c) == \E k \in Children(cs, c) : cs[k].pc = "done"

AllSettled(cs, c) == \A k \in Children(cs, c) : cs[k].pc \in {"done", "failed"}

\* line 77: dask.compute returns only when every child has returned
AllReturned(cs, c) == \A k \in Children(cs, c) : cs[k].pc = "done"

\* lines 77-79 and 82: every child returned, their results are concatenated
Gather(c) ==
    /\ calls[c].pc = "gathering"
    /\ AllReturned(calls, c)
    /\ calls' = [calls EXCEPT ![c].blob_names = Extend(compute(calls, c, finished)),
                              ![c].pc = "done", ![c].cc = "closed"]
    /\ closes' = closes + 1
    /\ finished' = Append(finished, c)
    /\ UNCHANGED <<store, op, argPrefix, argDepth, argSample, rd, lp, storeOps,
                   opens, run, first>>

\* line 77 raises: the scheduler re-raises the error of a failed child in
\* the parent (the siblings it already started keep running)
GatherFail(c) ==
    /\ calls[c].pc = "gathering"
    /\ \E k \in Children(calls, c) : calls[k].pc = "failed"
    /\ calls' = [calls EXCEPT ![c].pc = "failed", ![c].cc = "closed"]
    /\ closes' = closes + 1
    /\ UNCHANGED <<store, op, argPrefix, argDepth, argSample, finished, rd, lp, storeOps,
                   opens, run, first>>

\* the caller builds and forces list_prefixes(prefix, depth) a second time
\* against the same container
Again ==
    /\ op = "list_prefixes"
    /\ run = 1
    /\ calls[Root].pc = "done"
    /\ run' = 2
    /\ first' = calls[Root].blob_names
    /\ calls' = (Root :> [Delayed(argPrefix) EXCEPT !.pc = "ready"])
    /\ finished' = <<>>
    /\ storeOps' = {}
    /\ UNCHANGED <<store, op, argPrefix, argDepth, argSample, rd, lp, opens, closes>>

\* -------------------------------------------------------- read_under_prefix
ValidSampleNoUpper(s) == 0 <= s

\* line 91: assert 0 <= sample <= 1, with sample = s / SampleDen
ValidSample(s) == 0 <= s /\ s <= SampleDen

SampleSizeRounded(n, s) == (2 * n * s + SampleDen) \div (2 * SampleDen)

\* line 95: int(len(blobs) * sample); int() truncates towards zero
SampleSize(n, s) ==
    IF n * s >= 0 THEN (n * s) \div SampleDen ELSE 0 - ((0 - (n * s)) \div SampleDen)

Injective(f) == \A i, j \in DOMAIN f : i # j => f[i] # f[j]

random_choices(pop, k) ==
    {[i \in 1..k |-> pop[f[i]]] : f \in [1..k -> DOMAIN pop]}

\* line 95: random.sample(blobs, k), k positions drawn without replacement,
\* in any order
random_sample(pop, k) ==
    {[i \in 1..k |-> pop[f[i]]] : f \in {g \in [1..k -> DOMAIN pop] : Injective(g)}}

ReadOp(kind, n, inWith) == [by |-> Root, kind |-> kind, arg |-> n, handle |-> Root,
                            scoped |-> inWith]

\* lines 97-100: the call is inside its `with cc` block
RdInWith == rd.pc = "loop"

\* lines 90-91: build the client, then check the fraction
RdAssert ==
    /\ rd.pc = "ready"
    /\ rd' = [rd EXCEPT !.cc = "built",
                        !.pc = IF ValidSample(argSample) THEN "list" ELSE "failed"]
    /\ UNCHANGED <<store, op, argPrefix, argDepth, argSample, calls, finished, lp,
                   storeOps, opens, closes, run, first>>

\* lines 93-95: the full listing, sent through the client before `with cc`
\* (the client opens its session on the first request), then the sample
RdList ==
    /\ rd.pc = "list"
    /\ LET all == list_blobs(store, argPrefix) IN
       \E smp \in random_sample(all, SampleSize(Len(all), argSample)) :
          rd' = [rd EXCEPT !.listing = all, !.blobs = smp, !.cc = "open", !.pc = "sampled"]
    /\ storeOps' = storeOps \cup {ReadOp("list", argPrefix, RdInWith)}
    /\ opens' = opens + 1
    /\ UNCHANGED <<store, op, argPrefix, argDepth, argSample, calls, finished, lp,
                   closes, run, first>>

\* line 94 raises: nothing closes the client, the `with` was never entered
RdListFail ==
    /\ rd.pc = "list"
    /\ rd' = [rd EXCEPT !.cc = "open", !.pc = "failed"]
    /\ storeOps' = storeOps \cup {ReadOp("list", argPrefix, RdInWith)}
    /\ opens' = opens + 1
    /\ UNCHANGED <<store, op, argPrefix, argDepth, argSample, calls, finished, lp,
                   closes, run, first>>

\* line 97: with cc (the session is open already)
RdWith ==
    /\ rd.pc = "sampled"
    /\ rd' = [rd EXCEPT !.pc = "loop"]
    /\ UNCHANGED <<store, op, argPrefix, argDepth, argSample, calls, finished, lp,
                   storeOps, opens, closes, run, first>>

\* lines 98-100: download the next sampled blob and append its content
RdDownload ==
    /\ rd.pc = "loop"
    /\ Len(rd.items) < Len(rd.blobs)
    /\ LET blob == rd.blobs[Len(rd.items) + 1] IN
       /\ rd' = [rd EXCEPT !.items = Append(@, readall(blob))]
       /\ storeOps' = storeOps \cup {ReadOp("download", blob, RdInWith)}
    /\ UNCHANGED <<store, op, argPrefix, argDepth, argSample, calls, finished, lp,
                   opens, closes, run, first>>

\* line 99 raises: `with cc` closes the client and the error leaves the call
RdDownloadFail ==
    /\ rd.pc = "loop"
    /\ Len(rd.items) < Len(rd.blobs)
    /\ rd' = [rd EXCEPT !.cc = "closed", !.pc = "failed"]
    /\ storeOps' = storeOps \cup {ReadOp("download", rd.blobs[Len(rd.items) + 1], RdInWith)}
    /\ closes' = closes + 1
    /\ UNCHANGED <<store, op, argPrefix, argDepth, argSample, calls, finished, lp,
                   opens, run, first>>

\* lines 97-102: the loop is over, `with cc` closes the client, return items
RdReturn ==
    /\ rd.pc = "loop"
    /\ Len(rd.items) = Len(rd.blobs)
    /\ rd' = [rd EXCEPT !.cc = "closed", !.pc = "done"]
    /\ closes' = closes + 1
    /\ UNCHANGED <<store, op, argPrefix, argDepth, argSample, calls, finished, lp,
                   storeOps, opens, run, first>>

\* ---------------------------------------------------------- list_properties
\* line 114: (bp.name, bp.last_modified, bp.creation_time, bp.size); the
\* two timestamps are not modelled
Record(n) == [name |-> n, size |-> Len(readall(n))]

\* line 111: with ContainerClient(**storage_options) as cc
LpEnter ==
    /\ lp.pc = "ready"
    /\ lp' = [lp EXCEPT !.cc = "open", !.pc = "entered"]
    /\ opens' = opens + 1
    /\ UNCHANGED <<store, op, argPrefix, argDepth, argSample, calls, finished, rd,
                   storeOps, closes, run, first>>

\* lines 112-117: one full listing, mapped to records in listing order
LpList ==
    /\ lp.pc = "entered"
    /\ LET all == list_blobs(store, argPrefix) IN
       lp' = [lp EXCEPT !.records = [i \in DOMAIN all |-> Record(all[i])],
                        !.cc = "closed", !.pc = "done"]
    /\ storeOps' = storeOps \cup {ReadOp("list", argPrefix, TRUE)}
    /\ closes' = closes + 1
    /\ UNCHANGED <<store, op, argPrefix, argDepth, argSample, calls, finished, rd,
                   opens, run, first>>

\* lines 112-116 raise: `with` closes the client
LpListFail ==
    /\ lp.pc = "entered"
    /\ lp' = [lp EXCEPT !.cc = "closed", !.pc = "failed"]
    /\ storeOps' = storeOps \cup {ReadOp("list", argPrefix, TRUE)}
    /\ closes' = closes + 1
    /\ UNCHANGED <<store, op, argPrefix, argDepth, argSample, calls, finished, rd,
                   opens, run, first>>

\* ----------------------------------------------------------- specification
Init == InitOf(Ops)

InitExpand == InitOf({"list_prefixes"})

InitRead == InitOf({"read_under_prefix"})

NextExpand ==
    \/ ForceExpand
    \/ \E c \in DOMAIN calls : Enter(c)
    \/ \E c \in DOMAIN calls : WalkReturn(c)
    \/ \E c \in DOMAIN calls : WalkRecurse(c)
    \/ \E c \in DOMAIN calls : WalkFail(c)
    \/ \E c \in DOMAIN calls : ReturnSelf(c)
    \/ \E c \in DOMAIN calls : ReturnEmpty(c)
    \/ \E c \in DOMAIN calls : Compute(c)
    \/ \E c \in DOMAIN calls : Gather(c)
    \/ \E c \in DOMAIN calls : GatherFail(c)

NextTwice ==
    \/ NextExpand
    \/ Again

NextRead ==
    \/ ForceRead
    \/ RdAssert
    \/ RdList
    \/ RdListFail
    \/ RdWith
    \/ RdDownload
    \/ RdDownloadFail
    \/ RdReturn

NextProps ==
    \/ LpEnter
    \/ LpList
    \/ LpListFail

Next ==
    \/ NextExpand
    \/ NextRead
    \/ NextProps

\* every operation, forced once
Spec == Init /\ [][Next]_vars

\* list_prefixes alone, forced once
SpecExpand == InitExpand /\ [][NextExpand]_vars

\* list_prefixes forced twice against the same container
SpecTwice == InitExpand /\ [][NextTwice]_vars

\* read_under_prefix alone
SpecRead == InitRead /\ [][NextRead]_vars

\* ------------------------------------------------------------------ claims
Elems(q) == {q[i] : i \in DOMAIN q}

Expanding == op = "list_prefixes"

Returned(c) == c \in DOMAIN calls /\ calls[c].pc = "done"

\* the prefixes that exist in the container at depth k under p
PrefixesAt(st, p, k) ==
    UNION {{SubSeq(n, 1, i) :
               i \in {j \in 1..Len(n) :
                         /\ n[j] = "/"
                         /\ j >= Len(p)
                         /\ Count(SubSeq(n, 1, j)) = k}} :
           n \in Under(st, p)}

\* the blobs under p whose name holds k delimiters
BlobsAt(st, p, k) == {n \in Under(st, p) : Count(n) = k}

\* r is p with its trailing delimiters replaced by exactly one
IsNormalFormOf(r, p) ==
    /\ Len(r) >= 1
    /\ r[Len(r)] = "/"
    /\ Len(r) = 1 \/ r[Len(r) - 1] # "/"
    /\ Len(r) - 1 <= Len(p)
    /\ SubSeq(p, 1, Len(r) - 1) = SubSeq(r, 1, Len(r) - 1)
    /\ \A i \in Len(r)..Len(p) : p[i] = "/"

RootPrefix == CHOOSE r \in SeqsUpTo(Chars, MaxPrefixLen + 1) : IsNormalFormOf(r, argPrefix)

\* C1 as stated: every element of a returned sequence holds exactly depth
\* delimiters
C1_ExactlyDepth ==
    Expanding =>
        \A c \in DOMAIN calls : Returned(c) =>
            \A e \in Elems(calls[c].blob_names) : Count(e) = argDepth

\* C1 amended: every element of a returned sequence holds exactly depth
\* delimiters, or is the name of a blob of the container and holds depth - 1
C1_DepthOrBlobAbove ==
    Expanding =>
        \A c \in DOMAIN calls : Returned(c) =>
            \A e \in Elems(calls[c].blob_names) :
                \/ Count(e) = argDepth
                \/ Count(e) = argDepth - 1 /\ e \in store

C1_Witness ==
    /\ Expanding
    /\ Returned(Root)
    /\ calls[Root].prefixes # <<>>
    /\ \E e \in Elems(calls[Root].blob_names) : Count(e) = argDepth
    /\ \E e \in Elems(calls[Root].blob_names) : Count(e) = argDepth - 1

\* C2: when the normal form of the prefix holds exactly depth delimiters,
\* the forced call returns the one-element sequence of that normal form,
\* whatever the container holds
C2_SelfAtDepth ==
    (Expanding /\ Returned(Root)) =>
        \A r \in SeqsUpTo(Chars, MaxPrefixLen + 1) :
            (IsNormalFormOf(r, argPrefix) /\ Count(r) = argDepth) =>
                calls[Root].blob_names = <<r>>

C2_Witness ==
    /\ Expanding
    /\ Returned(Root)
    /\ Count(RootPrefix) = argDepth
    /\ RootPrefix # argPrefix
    /\ Under(store, RootPrefix) # {}
    /\ calls[Root].blob_names = <<RootPrefix>>

\* C3 as stated, for d < depth: the returned sequence is exactly the
\* prefixes existing at depth under p, each once, in listing order (for
\* d = depth the call returns [p] whether or not p exists, see C2)
C3_ExactlyThePrefixes ==
    (Expanding /\ Returned(Root) /\ Count(RootPrefix) < argDepth) =>
        calls[Root].blob_names = SortNames(PrefixesAt(store, RootPrefix, argDepth))

\* C3 amended: for d < depth the names returned are every prefix existing at
\* depth under p together with every blob under p whose name holds
\* depth - 1 delimiters, and no other name
C3_PrefixesAndBlobs ==
    (Expanding /\ Returned(Root) /\ Count(RootPrefix) < argDepth) =>
        Elems(calls[Root].blob_names) =
            PrefixesAt(store, RootPrefix, argDepth) \cup BlobsAt(store, RootPrefix, argDepth - 1)

C3_Witness ==
    /\ Expanding
    /\ argPrefix = <<"a">>
    /\ Returned(Root)
    /\ Count(RootPrefix) < argDepth
    /\ Cardinality(PrefixesAt(store, RootPrefix, argDepth)) = 2
    /\ calls[Root].blob_names = SortNames(PrefixesAt(store, RootPrefix, argDepth))

\* C4: a call that fanned out returns the concatenation of its children's
\* results in the order of the listing, whatever order they finished in
C4_DiscoveryOrder ==
    Expanding =>
        \A c \in DOMAIN calls :
            (Returned(c) /\ Children(calls, c) \subseteq DOMAIN calls /\ Children(calls, c) # {}) =>
                calls[c].blob_names =
                    Flatten([i \in 1..Len(calls[c].prefixes) |-> calls[c \o <<i>>].blob_names])

Before(fin, a, b) == \E i, j \in DOMAIN fin : i < j /\ fin[i] = a /\ fin[j] = b

C4_Witness ==
    /\ Expanding
    /\ Returned(Root)
    /\ Len(calls[Root].prefixes) = 2
    /\ <<1>> \in DOMAIN calls
    /\ Before(finished, <<2>>, <<1>>)
    /\ calls[<<1>>].blob_names # <<>>
    /\ calls[<<2>>].blob_names # <<>>
    /\ calls[<<1>>].blob_names # calls[<<2>>].blob_names

Over(pc) == pc \in {"done", "failed"}

\* the forced top-level call and every call it started have returned or failed
Quiet ==
    /\ \A c \in DOMAIN calls : Over(calls[c].pc)
    /\ op = "read_under_prefix" => Over(rd.pc)
    /\ op = "list_properties" => Over(lp.pc)

\* C5 as stated: once a call has returned or failed the client it used is
\* closed, and when everything is over as many sessions were closed as opened
C5_HandlesReleased ==
    /\ \A c \in DOMAIN calls : Over(calls[c].pc) => calls[c].cc # "open"
    /\ Over(rd.pc) => rd.cc # "open"
    /\ Over(lp.pc) => lp.cc # "open"
    /\ Quiet => opens = closes

\* the listed blobs of a read_under_prefix call
Listed == Under(store, argPrefix)

Reading == op = "read_under_prefix"

\* C6: a returned read_under_prefix holds floor(N * f) contents; none for
\* f = 0; for f = 1 as many as listed blobs, the content of every one of them
C6_SampleCardinality ==
    (Reading /\ rd.pc = "done") =>
        LET N == Cardinality(Listed)
            k == Len(rd.items) IN
        /\ k * SampleDen <= N * argSample
        /\ N * argSample < (k + 1) * SampleDen
        /\ argSample = 0 => rd.items = <<>>
        /\ argSample = SampleDen =>
              k = N /\ Elems(rd.items) = {readall(n) : n \in Listed}

C6_Witness ==
    /\ Reading
    /\ rd.pc = "done"
    /\ Cardinality(Listed) = MaxBlobs
    /\ Len(rd.items) >= 1
    /\ Len(rd.items) * SampleDen < Cardinality(Listed) * argSample

\* C7: every download is of a listed blob and no blob is downloaded twice
C7_SampleIsSubset ==
    Reading =>
        /\ \A o \in storeOps : o.kind = "download" => o.arg \in Listed
        /\ \A i \in DOMAIN rd.items : rd.items[i] = readall(rd.blobs[i])
        /\ \A i, j \in DOMAIN rd.blobs : i # j => rd.blobs[i] # rd.blobs[j]

C7_Witness ==
    /\ Reading
    /\ rd.pc = "done"
    /\ Len(rd.items) = 2
    /\ Cardinality(Listed) > 2 \/ rd.blobs # rd.listing

\* C8: with a fraction outside [0, 1] the forced call fails before any
\* request to the store and returns nothing
C8_InvalidFractionFailsFirst ==
    (Reading /\ (argSample < 0 \/ argSample > SampleDen)) =>
        /\ rd.pc \in {"deferred", "ready", "failed"}
        /\ storeOps = {}
        /\ rd.items = <<>>
        /\ opens = 0

C8_Witness ==
    /\ Reading
    /\ argSample > SampleDen
    /\ rd.pc = "failed"
    /\ Listed # {}

Ancestors(c) == {SubSeq(c, 1, n) : n \in 0..(Len(c) - 1)}

\* C9: when the listing of a call fails no enclosing call returns a result;
\* an enclosing call that is over has failed
C9_FailurePropagates ==
    Expanding =>
        \A c \in DOMAIN calls : calls[c].pc = "failed" =>
            \A a \in Ancestors(c) : calls[a].pc # "done"

C9_Witness ==
    /\ Expanding
    /\ calls[Root].pc = "failed"
    /\ \E c, k \in DOMAIN calls :
          /\ Len(c) = 1 /\ Len(k) = 1
          /\ calls[c].pc = "failed"
          /\ calls[k].pc = "done"
          /\ calls[k].blob_names # <<>>

\* C10: the second forced expansion of the same prefix and depth against the
\* same container returns the sequence the first one returned
C10_Idempotent ==
    (Expanding /\ run = 2 /\ Returned(Root)) => calls[Root].blob_names = first

C10_Witness ==
    /\ Expanding
    /\ run = 2
    /\ Returned(Root)
    /\ Len(calls[Root].prefixes) = 2
    /\ Before(finished, <<2>>, <<1>>)
    /\ Len(first) >= 2
    /\ first[1] # first[2]

OpsOf(c) == {o \in storeOps : o.by = c \/ o.handle = c}

\* C11: a call of list_prefixes or read_under_prefix that has not been forced
\* holds no client, has sent no request and has created no further call;
\* before the caller forces the top-level object nothing was opened or sent
C11_DeferredDoesNothing ==
    /\ \A c \in DOMAIN calls : calls[c].pc = "deferred" =>
           /\ calls[c].cc = "none"
           /\ OpsOf(c) = {}
           /\ Children(calls, c) = {}
           /\ calls[c].blob_names = <<>>
    /\ (Expanding /\ calls[Root].pc = "deferred") =>
           opens = 0 /\ storeOps = {} /\ DOMAIN calls = {Root}
    /\ (Reading /\ rd.pc = "deferred") =>
           rd.cc = "none" /\ opens = 0 /\ storeOps = {} /\ rd.items = <<>>

C11_Witness ==
    /\ Expanding
    /\ calls[Root].pc = "built"
    /\ \E c \in DOMAIN calls :
          /\ Len(c) = 1
          /\ calls[c].pc = "deferred"
          /\ Under(store, Normalize(calls[c].prefix)) # {}
          /\ OpsOf(Root) # {}

\* C12: when the normal form of the prefix holds more than depth delimiters,
\* the forced call sends no listing, creates no further call, does not fail
\* and returns the empty sequence
C12_DeeperIsEmpty ==
    (Expanding /\ Count(RootPrefix) > argDepth) =>
        /\ storeOps = {}
        /\ DOMAIN calls = {Root}
        /\ calls[Root].pc \in {"deferred", "ready", "entered", "done"}
        /\ calls[Root].blob_names = <<>>

C12_Witness ==
    /\ Expanding
    /\ Returned(Root)
    /\ argDepth >= 1
    /\ Count(RootPrefix) > argDepth
    /\ PrefixEntries(store, RootPrefix) # {}
    /\ calls[Root].blob_names = <<>>

\* C13: no element of a returned sequence holds more than depth delimiters
C13_AtMostDepth ==
    Expanding =>
        \A c \in DOMAIN calls :
            \A i \in DOMAIN calls[c].blob_names : Count(calls[c].blob_names[i]) <= argDepth

C13_Witness ==
    /\ Expanding
    /\ Returned(Root)
    /\ <<1>> \in DOMAIN calls
    /\ \E e \in Elems(calls[Root].blob_names) : Count(e) < argDepth
    /\ \E n \in Under(store, RootPrefix) : Count(n) > argDepth \/ Len(calls[Root].blob_names) = 2

\* the calls created by call c
Dispatched(c) == {k \in DOMAIN calls : c \in Ancestors(k) /\ Len(k) = Len(c) + 1}

\* C14: a call whose prefix holds depth - 1 delimiters sends one listing,
\* creates no call and returns the names of that listing in listing order;
\* no call other than the top-level one has a prefix that holds depth
\* delimiters (or more) in normal form
C14_LastLevelReturnsListing ==
    Expanding =>
        /\ \A c \in DOMAIN calls :
              (calls[c].pc \notin {"deferred", "ready"} /\ Count(calls[c].prefix) = argDepth - 1) =>
                  /\ Dispatched(c) = {}
                  /\ Returned(c) =>
                        /\ calls[c].blob_names =
                              SortNames(PrefixEntries(store, calls[c].prefix))
                                  \o SortNames(BlobEntries(store, calls[c].prefix))
                        /\ Cardinality({o \in storeOps : o.by = c}) = 1
        /\ \A c \in DOMAIN calls \ {Root} : Count(Normalize(calls[c].prefix)) < argDepth

C14_Witness ==
    /\ Expanding
    /\ Returned(Root)
    /\ \E c \in DOMAIN calls :
          /\ Len(c) = 1
          /\ Returned(c)
          /\ Count(calls[c].prefix) = argDepth - 1
          /\ Len(calls[c].blob_names) = 2
          /\ PrefixEntries(store, calls[c].prefix) # {}

\* C15: every request of an expansion goes through the client built by the
\* call that sends it, while that client is open, and lists that call's own
\* prefix; every call that started has opened exactly its own client
C15_OwnHandleOnly ==
    Expanding =>
        /\ \A o \in storeOps :
              /\ o.handle = o.by
              /\ o.scoped
              /\ o.arg = calls[o.by].prefix
        /\ opens = Cardinality({c \in DOMAIN calls : calls[c].cc # "none"})

C15_Witness ==
    /\ Expanding
    /\ calls[Root].cc = "open"
    /\ \E c, k \in DOMAIN calls :
          /\ Len(c) = 1 /\ Len(k) = 1 /\ c # k
          /\ calls[k].cc = "open"
          /\ Returned(c)
          /\ \E o \in storeOps : o.by = c /\ o.handle = c
          /\ \E o \in storeOps : o.by = Root /\ o.handle = Root

Parent(k) == SubSeq(k, 1, Len(k) - 1)

\* d of a call: the delimiters of its prefix in normal form (lines 65-66)
DepthOf(c) == Count(Normalize(calls[c].prefix))

\* C16 as stated: every dispatched call holds strictly more delimiters than
\* the call that dispatched it, which is what bounds the recursion by depth
\* and makes every forced expansion end
C16_DepthGrows ==
    Expanding =>
        \A k \in DOMAIN calls \ {Root} : DepthOf(k) > DepthOf(Parent(k))

\* C17 as stated: every request of a read_under_prefix call, the listing as
\* well as each download, is sent inside the call's `with cc` block
C17_ReadOpsInScope ==
    Reading => \A o \in storeOps : o.scoped

\* C18 as stated: while a call holds its open client every call above it
\* still holds its own open client
C18_AncestorsStayOpen ==
    Expanding =>
        \A c \in DOMAIN calls : calls[c].cc = "open" =>
            \A a \in Ancestors(c) : calls[a].cc = "open"

\* C18 amended: while a call holds its open client every call above it
\* still holds its own open client or has failed; a call that returned a
\* result closed its client after every call below it had returned and
\* closed its own
C18_OpenOrFailedAbove ==
    Expanding =>
        \A c \in DOMAIN calls :
            \A a \in Ancestors(c) :
                /\ calls[c].cc = "open" => (calls[a].cc = "open" \/ calls[a].pc = "failed")
                /\ Returned(a) =>
                      /\ Returned(c)
                      /\ calls[c].cc = "closed"
                      /\ Before(finished, c, a)

C18_Witness ==
    /\ Expanding
    /\ calls[Root].pc = "failed"
    /\ calls[Root].cc = "closed"
    /\ \E c, k \in DOMAIN calls :
          /\ Len(c) = 1 /\ Len(k) = 1
          /\ calls[c].pc = "failed"
          /\ calls[k].cc = "open"
          /\ DepthOf(c) > DepthOf(Root)
          /\ DepthOf(k) > DepthOf(Root)

EndsWithOneDelim(r) ==
    /\ Len(r) >= 1
    /\ r[Len(r)] = "/"
    /\ Len(r) = 1 \/ r[Len(r) - 1] # "/"

\* C19: the prefix a call works with after line 65 ends with exactly one
\* delimiter and so holds at least one; with depth <= 0 the forced call
\* sends no listing, creates no call, does not fail and returns the empty
\* sequence
C19_NonPositiveDepthIsEmpty ==
    Expanding =>
        /\ \A c \in DOMAIN calls : calls[c].pc \notin {"deferred", "ready"} =>
              /\ EndsWithOneDelim(calls[c].prefix)
              /\ Count(calls[c].prefix) >= 1
        /\ argDepth <= 0 =>
              /\ storeOps = {}
              /\ DOMAIN calls = {Root}
              /\ calls[Root].pc # "failed"
              /\ calls[Root].blob_names = <<>>

C19_Witness ==
    /\ Expanding
    /\ Returned(Root)
    /\ argDepth < 0
    /\ Len(argPrefix) = 2
    /\ argPrefix[2] = "/"
    /\ calls[Root].prefix # argPrefix \o <<"/">>
    /\ Under(store, calls[Root].prefix) # {}

====
